---- MODULE Spec2Model ----
(***************************************************************************)
(* A model of src/src/utils.py: zScore (z-score normalisation along an     *)
(* axis, NaN-aware) and moving_average (sliding-window mean by a 'valid'   *)
(* convolution with a vector of ones).                                     *)
(*                                                                         *)
(* Numbers.  A float is modelled as an exact value with the IEEE special   *)
(* values kept: NaN, +inf, -inf, or a finite number held exactly.  Finite  *)
(* arithmetic is exact (rounding and overflow of finite values are not     *)
(* modelled); arithmetic on NaN and the infinities follows IEEE 754.       *)
(* The square root of the variance and the 1e-7 added to it are held       *)
(* symbolically, so that nothing is rounded:                               *)
(*    k = "nan"      NaN                                                   *)
(*    k = "inf"      +inf (n = 1) or -inf (n = -1)                         *)
(*    k = "fin"      n / d                                                 *)
(*    k = "sqrt"     sqrt(n / d)                                           *)
(*    k = "sqrteps"  sqrt(n / d) + 1e-7                                    *)
(*    k = "quot"     (n / d) / (sqrt(rn / rd) + 1e-7)                      *)
(*    k = "quots"    (n / d) / sqrt(rn / rd)                               *)
(* with n/d and rn/rd in lowest terms and d, rd > 0.                       *)
(***************************************************************************)
EXTENDS Integers, Sequences, FiniteSets, TLC

VARIABLES fn, X, arg, result, pc

vars == <<fn, X, arg, result, pc>>

---------------------------------------------------------------------------
(* Bounds of the model *)

\* largest number of elements of a 2-D input array
MaxCells == 4
\* finite input values are the integers -MaxVal .. MaxVal
MaxVal == 1
\* largest length of a 1-D input array
MaxLen == 3
\* length and largest absolute value of the series drawn already normalised
IdemLen == 6
IdemMax == 2

\* 1e-7 is 1 / EpsDen
EpsDen == 10000000

---------------------------------------------------------------------------
(* Scalars *)

Abs(i) == IF i < 0 THEN -i ELSE i

RECURSIVE Gcd(_, _)
Gcd(a, b) == IF b = 0 THEN a ELSE Gcd(b, a % b)

Scalar(kind, n, d, rn, rd) == [k |-> kind, n |-> n, d |-> d, rn |-> rn, rd |-> rd]

NaN == Scalar("nan", 0, 1, 0, 1)
PInf == Scalar("inf", 1, 1, 0, 1)
NInf == Scalar("inf", -1, 1, 0, 1)

\* the finite number n / d, d # 0, in lowest terms
Fin(n, d) ==
    LET g == Gcd(Abs(n), Abs(d))
        s == IF d < 0 THEN -1 ELSE 1
    IN  Scalar("fin", (s * n) \div g, (s * d) \div g, 0, 1)

IsNaN(a) == a.k = "nan"
IsInf(a) == a.k = "inf"
IsFin(a) == a.k = "fin"
Sign(i) == IF i > 0 THEN 1 ELSE IF i < 0 THEN -1 ELSE 0

\* IEEE addition of floats
Add(a, b) ==
    IF IsNaN(a) \/ IsNaN(b) THEN NaN
    ELSE IF IsInf(a) /\ IsInf(b) THEN (IF a.n = b.n THEN a ELSE NaN)
    ELSE IF IsInf(a) THEN a
    ELSE IF IsInf(b) THEN b
    ELSE Fin(a.n * b.d + b.n * a.d, a.d * b.d)

Neg(a) == IF IsNaN(a) THEN NaN ELSE [a EXCEPT !.n = -a.n]

\* IEEE subtraction of floats
Sub(a, b) == Add(a, Neg(b))

\* IEEE multiplication of floats
Mul(a, b) ==
    IF IsNaN(a) \/ IsNaN(b) THEN NaN
    ELSE IF IsInf(a) \/ IsInf(b)
         THEN (IF Sign(a.n) * Sign(b.n) = 0 THEN NaN
               ELSE Scalar("inf", Sign(a.n) * Sign(b.n), 1, 0, 1))
    ELSE Fin(a.n * b.n, a.d * b.d)

\* IEEE division of a float by the integer c (numpy warns and goes on when c = 0)
DivInt(a, c) ==
    IF IsNaN(a) THEN NaN
    ELSE IF c = 0 THEN (IF a.n = 0 THEN NaN ELSE Scalar("inf", Sign(a.n), 1, 0, 1))
    ELSE IF IsInf(a) THEN Scalar("inf", Sign(a.n) * Sign(c), 1, 0, 1)
    ELSE Fin(a.n, a.d * c)

\* np.sqrt of a variance (a NaN, +inf or a finite number >= 0), kept symbolic
Sqrt(a) ==
    IF IsNaN(a) THEN NaN
    ELSE IF IsInf(a) THEN (IF a.n > 0 THEN PInf ELSE NaN)
    ELSE IF a.n < 0 THEN NaN
    ELSE Scalar("sqrt", a.n, a.d, 0, 1)

\* seeded fault: the 1e-7 is left out of the denominator
AddEpsMissing(s) == s

\* std + 1e-7
AddEps(s) ==
    IF s.k = "sqrt" THEN Scalar("sqrteps", s.n, s.d, 0, 1) ELSE s

\* IEEE division a / den of a float a by a standard deviation den, with or
\* without the 1e-7 (a "sqrteps" is finite and > 0, a "sqrt" is finite and >= 0)
Div(a, den) ==
    IF IsNaN(a) \/ IsNaN(den) THEN NaN
    ELSE IF IsInf(den) THEN (IF IsInf(a) THEN NaN ELSE Fin(0, 1))
    ELSE IF den.k = "sqrt" /\ den.n = 0
         THEN (IF a.n = 0 THEN NaN ELSE Scalar("inf", Sign(a.n), 1, 0, 1))
    ELSE IF IsInf(a) THEN a
    ELSE IF den.k = "sqrt" THEN Scalar("quots", a.n, a.d, den.n, den.d)
    ELSE Scalar("quot", a.n, a.d, den.n, den.d)

---------------------------------------------------------------------------
(* Arrays: shape is the tuple of axis lengths, data maps every index tuple *)
(* (0-based, as in numpy) to a scalar.  kind tells a pandas DataFrame from *)
(* a numpy array.                                                          *)

Array(kind, shape, data) == [kind |-> kind, shape |-> shape, data |-> data]

Ndim(A) == Len(A.shape)

RECURSIVE MaxOf(_)
MaxOf(s) == IF Len(s) = 0 THEN 0
            ELSE LET m == MaxOf(Tail(s)) IN IF Head(s) > m THEN Head(s) ELSE m

Indices(shape) ==
    {t \in [1 .. Len(shape) -> 0 .. MaxOf(shape) - 1] :
        \A k \in 1 .. Len(shape) : t[k] < shape[k]}

\* the indices of the slice along axis ax (0-based) through index idx
SliceOf(A, idx, ax) ==
    {j \in DOMAIN A.data : \A k \in 1 .. Ndim(A) : k # ax + 1 => j[k] = idx[k]}

\* the shape after a reduction along ax with keepdims=True
KeepDims(shape, ax) == [shape EXCEPT ![ax + 1] = 1]

RECURSIVE SumOver(_, _)
SumOver(f, S) ==
    IF S = {} THEN Fin(0, 1)
    ELSE LET j == CHOOSE j \in S : TRUE IN Add(f[j], SumOver(f, S \ {j}))

\* numpy's _replace_nan(a, 0)
ReplaceNaN(data) == [j \in DOMAIN data |-> IF IsNaN(data[j]) THEN Fin(0, 1) ELSE data[j]]

CountOver(data, S) == Cardinality({j \in S : ~IsNaN(data[j])})

\* seeded fault: the sum of the non-missing values is divided by the length
\* of the slice, missing values counted
NanMeanAllCount(A, ax) ==
    LET arr == ReplaceNaN(A.data)
        shp == KeepDims(A.shape, ax)
    IN  Array("ndarray", shp,
              [r \in Indices(shp) |->
                  LET S == SliceOf(A, r, ax)
                  IN  DivInt(SumOver(arr, S), Cardinality(S))])

\* seeded fault: the mean is taken over the whole array (axis=None)
NanMeanGlobal(A, ax) ==
    LET arr == ReplaceNaN(A.data)
        shp == KeepDims(A.shape, ax)
        all == DOMAIN A.data
    IN  Array("ndarray", shp,
              [r \in Indices(shp) |-> DivInt(SumOver(arr, all), CountOver(A.data, all))])

\* np.nanmean(A, ax, keepdims=True)
NanMean(A, ax) ==
    LET arr == ReplaceNaN(A.data)
        shp == KeepDims(A.shape, ax)
    IN  Array("ndarray", shp,
              [r \in Indices(shp) |->
                  LET S == SliceOf(A, r, ax)
                  IN  DivInt(SumOver(arr, S), CountOver(A.data, S))])

\* seeded fault: the mean of the squares, the mean not subtracted
NanVarNoCenter(A, ax) ==
    LET arr == ReplaceNaN(A.data)
        shp == KeepDims(A.shape, ax)
    IN  Array("ndarray", shp,
              [r \in Indices(shp) |->
                  LET S   == SliceOf(A, r, ax)
                      cnt == CountOver(A.data, S)
                      sqr == [j \in S |-> Mul(arr[j], arr[j])]
                  IN  IF cnt <= 0 THEN NaN ELSE DivInt(SumOver(sqr, S), cnt)])

\* seeded fault: the sample variance (ddof=1)
NanVarSample(A, ax) ==
    LET arr == ReplaceNaN(A.data)
        shp == KeepDims(A.shape, ax)
    IN  Array("ndarray", shp,
              [r \in Indices(shp) |->
                  LET S   == SliceOf(A, r, ax)
                      cnt == CountOver(A.data, S)
                      avg == DivInt(SumOver(arr, S), cnt)
                      dev == [j \in S |-> IF IsNaN(A.data[j]) THEN Fin(0, 1)
                                          ELSE Sub(arr[j], avg)]
                      sqr == [j \in S |-> Mul(dev[j], dev[j])]
                  IN  IF cnt - 1 <= 0 THEN NaN ELSE DivInt(SumOver(sqr, S), cnt - 1)])

\* numpy's _nanvar(A, ax, ddof=0, keepdims=True)
NanVar(A, ax) ==
    LET arr == ReplaceNaN(A.data)
        shp == KeepDims(A.shape, ax)
    IN  Array("ndarray", shp,
              [r \in Indices(shp) |->
                  LET S   == SliceOf(A, r, ax)
                      cnt == CountOver(A.data, S)
                      avg == DivInt(SumOver(arr, S), cnt)
                      dev == [j \in S |-> IF IsNaN(A.data[j]) THEN Fin(0, 1)
                                          ELSE Sub(arr[j], avg)]
                      sqr == [j \in S |-> Mul(dev[j], dev[j])]
                  IN  IF cnt <= 0 THEN NaN ELSE DivInt(SumOver(sqr, S), cnt)])

\* np.nanstd(A, ax, keepdims=True)
NanStd(A, ax) ==
    LET v == NanVar(A, ax)
    IN  Array("ndarray", v.shape, [r \in DOMAIN v.data |-> Sqrt(v.data[r])])

\* the index of the size-1 axis that broadcasts against idx
Reduced(idx, ax) == [idx EXCEPT ![ax + 1] = 0]

\* seeded fault: the mean is subtracted from the array with its NaN replaced by 0
BroadcastSubReplaced(A, M, ax) ==
    Array("ndarray", A.shape,
          [j \in DOMAIN A.data |-> Sub(ReplaceNaN(A.data)[j], M.data[Reduced(j, ax)])])

\* A - M, M broadcast along ax
BroadcastSub(A, M, ax) ==
    Array("ndarray", A.shape,
          [j \in DOMAIN A.data |-> Sub(A.data[j], M.data[Reduced(j, ax)])])

\* S + 1e-7
PlusEps(S) ==
    Array("ndarray", S.shape, [r \in DOMAIN S.data |-> AddEps(S.data[r])])

\* A / D, D broadcast along ax
BroadcastDiv(A, D, ax) ==
    Array("ndarray", A.shape,
          [j \in DOMAIN A.data |-> Div(A.data[j], D.data[Reduced(j, ax)])])

\* DataFrame.to_numpy(): the values as a plain 2-D array
ToNumpy(A) == Array("ndarray", A.shape, A.data)

\* numpy's normalize_axis_index: -ndim <= dim < ndim, negative dims count from the end
AxisOk(dim, ndim) == -ndim <= dim /\ dim < ndim
NormalizeAxis(dim, ndim) == IF dim < 0 THEN dim + ndim ELSE dim

Returned(v) == [status |-> "returned", value |-> v, exc |-> "none"]
Raised(e) == [status |-> "raised", value |-> Array("ndarray", <<0>>, <<>>), exc |-> e]
NoResult == [status |-> "none", value |-> Array("ndarray", <<0>>, <<>>), exc |-> "none"]

\* seeded fault: an axis out of range is wrapped around instead of refused
zScoreWrapAxis(A, dim) ==
    LET A1 == IF A.kind = "DataFrame" THEN ToNumpy(A) ELSE A
        ax == dim % Ndim(A1)
    IN  Returned(BroadcastDiv(BroadcastSub(A1, NanMean(A1, ax), ax),
                              PlusEps(NanStd(A1, ax)), ax))

\* zScore(A, dim)
zScore(A, dim) ==
    LET A1 == IF A.kind = "DataFrame" THEN ToNumpy(A) ELSE A
    IN  IF ~AxisOk(dim, Ndim(A1)) THEN Raised("AxisError")
        ELSE LET ax == NormalizeAxis(dim, Ndim(A1))
             IN  Returned(BroadcastDiv(BroadcastSub(A1, NanMean(A1, ax), ax),
                                       PlusEps(NanStd(A1, ax)), ax))

---------------------------------------------------------------------------
(* moving_average *)

\* a 1-D array of the scalars of the sequence s
Array1D(s) == Array("ndarray", <<Len(s)>>, [j \in Indices(<<Len(s)>>) |-> s[j[1] + 1]])

Length(A) == A.shape[1]

\* np.ones(w), for w >= 0
Ones(w) == Array1D([i \in 1 .. w |-> Fin(1, 1)])

\* v[::-1]
Reversed(v) == Array1D([i \in 1 .. Length(v) |-> v.data[<<Length(v) - i>>]])

RECURSIVE DotFrom(_, _, _, _)
\* a[k] * v[0] + ... + a[k + m - 1] * v[m - 1], for j = 0
DotFrom(a, v, k, j) ==
    IF j >= Length(v) THEN Fin(0, 1)
    ELSE Add(Mul(a.data[<<k + j>>], v.data[<<j>>]), DotFrom(a, v, k, j + 1))

RECURSIVE DotFromSkipNaN(_, _, _, _)
DotFromSkipNaN(a, v, k, j) ==
    IF j >= Length(v) THEN Fin(0, 1)
    ELSE IF IsNaN(a.data[<<k + j>>]) THEN DotFromSkipNaN(a, v, k, j + 1)
    ELSE Add(Mul(a.data[<<k + j>>], v.data[<<j>>]), DotFromSkipNaN(a, v, k, j + 1))

\* seeded fault: missing values are skipped in the sums
CorrelateSkipNaN(a, v) ==
    Array1D([i \in 1 .. Length(a) - Length(v) + 1 |-> DotFromSkipNaN(a, v, i - 1, 0)])

\* numpy's correlate(a, v, 'valid'), for Length(a) >= Length(v) >= 1
Correlate(a, v) ==
    Array1D([i \in 1 .. Length(a) - Length(v) + 1 |-> DotFrom(a, v, i - 1, 0)])

\* seeded fault: the arguments are not swapped when v is the longer
ConvolveNoSwap(a, v) ==
    IF Length(a) = 0 THEN Raised("ValueError")
    ELSE IF Length(v) = 0 THEN Raised("ValueError")
    ELSE Returned(Correlate(a, Reversed(v)))

\* np.convolve(a, v, 'valid'): the longer argument comes first
Convolve(a, v) ==
    LET a1 == IF Length(v) > Length(a) THEN v ELSE a
        v1 == IF Length(v) > Length(a) THEN a ELSE v
    IN  IF Length(a1) = 0 THEN Raised("ValueError")
        ELSE IF Length(v1) = 0 THEN Raised("ValueError")
        ELSE Returned(Correlate(a1, Reversed(v1)))

\* A / w, elementwise
DivArray(A, w) == Array("ndarray", A.shape, [j \in DOMAIN A.data |-> DivInt(A.data[j], w)])

\* seeded fault: the sums are divided by the length of the series
moving_averageDivLen(A, w) ==
    IF w < 0 THEN Raised("ValueError")
    ELSE LET c == Convolve(A, Ones(w))
         IN  IF c.status = "raised" THEN c ELSE Returned(DivArray(c.value, Length(A)))

\* moving_average(A, w)
moving_average(A, w) ==
    IF w < 0 THEN Raised("ValueError")
    ELSE LET c == Convolve(A, Ones(w))
         IN  IF c.status = "raised" THEN c ELSE Returned(DivArray(c.value, w))

---------------------------------------------------------------------------
(* The calls *)

InVals == {NaN, PInf, NInf} \cup {Fin(i, 1) : i \in -MaxVal .. MaxVal}

\* 1-D arrays of up to MaxLen elements, and 2-D arrays of up to MaxCells
\* elements with at least two rows and two columns
ZShapes ==
    {<<n>> : n \in 1 .. MaxLen}
    \cup {s \in {<<r, c>> : r \in 2 .. MaxCells, c \in 2 .. MaxCells} : s[1] * s[2] <= MaxCells}

Kinds(shape) == IF Len(shape) = 2 THEN {"ndarray", "DataFrame"} ELSE {"ndarray"}

InitZScore ==
    /\ fn = "zScore"
    /\ \E shape \in ZShapes : \E kind \in Kinds(shape) :
         \E data \in [Indices(shape) -> InVals] :
            /\ X = Array(kind, shape, data)
            /\ arg \in -(Len(shape) + 1) .. Len(shape)

InitMovingAverage ==
    /\ fn = "moving_average"
    /\ \E n \in 0 .. MaxLen : \E data \in [Indices(<<n>>) -> InVals] :
            X = Array("ndarray", <<n>>, data)
    /\ arg \in -1 .. MaxLen + 1

Init ==
    /\ InitZScore \/ InitMovingAverage
    /\ result = NoResult
    /\ pc = "call"

ZScoreCall ==
    /\ pc = "call"
    /\ fn = "zScore"
    /\ result' = zScore(X, arg)
    /\ pc' = "done"
    /\ UNCHANGED <<fn, X, arg>>

MovingAverageCall ==
    /\ pc = "call"
    /\ fn = "moving_average"
    /\ result' = moving_average(X, arg)
    /\ pc' = "done"
    /\ UNCHANGED <<fn, X, arg>>

Next == ZScoreCall \/ MovingAverageCall

Spec == Init /\ [][Next]_vars

---------------------------------------------------------------------------
(* What the claims speak of *)

ZDone == pc = "done" /\ fn = "zScore"
ZReturned == ZDone /\ result.status = "returned"
Out == result.value

\* the axis zScore reduced along
Ax == IF arg < 0 THEN arg + Len(X.shape) ELSE arg

\* one index per slice along Ax
SliceHeads == Indices([X.shape EXCEPT ![Ax + 1] = 1])

\* the indices of the slice through r
SliceAt(r) == {j \in DOMAIN X.data : \A k \in 1 .. Len(X.shape) : k # Ax + 1 => j[k] = r[k]}

Present(A, S) == {j \in S : A.data[j].k # "nan"}
AllFinite(A, S) == \A j \in S : A.data[j].k = "fin"
HasInf(A, S) == \E j \in S : A.data[j].k = "inf"

\* every non-missing entry of the output slice is num / (sqrt(rad) + 1e-7), one rad for all
SameRad(A, S) ==
    \A i, j \in Present(A, S) :
        /\ A.data[i].k = "quot"
        /\ A.data[i].rn = A.data[j].rn /\ A.data[i].rd = A.data[j].rd

\* the numerators of such a slice
Nums(A, S) == [j \in Present(A, S) |-> Fin(A.data[j].n, A.data[j].d)]

\* sum of squares
RECURSIVE SumSq(_, _)
SumSq(f, S) ==
    IF S = {} THEN Fin(0, 1)
    ELSE LET j == CHOOSE j \in S : TRUE IN Add(Mul(f[j], f[j]), SumSq(f, S \ {j}))

\* the population variance E[x^2] - E[x]^2 of the finite numbers f[j], j in S # {}
PopVar(f, S) ==
    LET c == Cardinality(S)
        m == DivInt(SumOver(f, S), c)
    IN  Sub(DivInt(SumSq(f, S), c), Mul(m, m))

\* The mean of the non-missing entries of an output slice is
\* (sum of the numerators / count) / (sqrt(rad) + 1e-7): it is 0 exactly
\* when the numerators sum to 0.
MeanIsZero(A, S) ==
    /\ SameRad(A, S)
    /\ SumOver(Nums(A, S), Present(A, S)) = Fin(0, 1)

SqrtAtLeastOneMinusEps(v) == 2 * v.d <= EpsDen /\ v.n >= v.d

\* The standard deviation of an output slice with no missing entry is
\* sqrt(v') / (sqrt(rad) + 1e-7), v' the variance of the numerators.  With
\* v' = rad = s^2 it is s / (s + 1e-7), which lies below 1 by 1e-7 / (s + 1e-7):
\* within 1e-7 of 1 exactly when s >= 1 - 1e-7.
StdIsOneWithinEps(A, S) ==
    /\ Present(A, S) = S
    /\ SameRad(A, S)
    /\ \A j \in S :
          LET v == PopVar(Nums(A, S), S)
          IN  /\ v.n = A.data[j].rn /\ v.d = A.data[j].rd
              /\ SqrtAtLeastOneMinusEps(v)

NoMissing(A) == \A j \in DOMAIN A.data : ~IsNaN(A.data[j])

HasMissing(A) == \E j \in DOMAIN A.data : IsNaN(A.data[j])
IsFinite(a) == a.k \in {"fin", "quot"}

\* C3 as claimed: for an input with missing values the output has the input's
\* shape, is missing exactly where the input is, and is finite elsewhere.
C3_MissingPreserved ==
    (ZReturned /\ HasMissing(X)) =>
        /\ Out.shape = X.shape /\ DOMAIN Out.data = DOMAIN X.data
        /\ \A j \in DOMAIN X.data :
              /\ IsNaN(Out.data[j]) <=> IsNaN(X.data[j])
              /\ ~IsNaN(X.data[j]) => IsFinite(Out.data[j])

\* C3 as amended: the output has the input's shape; in a slice with no
\* infinite value it is missing exactly where the input is and finite
\* elsewhere; a slice holding an infinite value comes out all missing.
C3_MissingPreservedFinite ==
    (ZReturned /\ HasMissing(X)) =>
        /\ Out.shape = X.shape /\ DOMAIN Out.data = DOMAIN X.data
        /\ \A r \in SliceHeads :
              LET S == SliceAt(r)
              IN  IF HasInf(X, S) THEN Present(Out, S) = {}
                  ELSE \A j \in S :
                          /\ IsNaN(Out.data[j]) <=> IsNaN(X.data[j])
                          /\ ~IsNaN(X.data[j]) => IsFinite(Out.data[j])

\* a slice with a missing and a finite value, and a slice with an infinite and
\* a finite value, were normalised
C3_Witness ==
    /\ ZReturned /\ HasMissing(X)
    /\ \E r \in SliceHeads :
          /\ ~HasInf(X, SliceAt(r))
          /\ \E i, j \in SliceAt(r) : IsNaN(Out.data[i]) /\ Out.data[j].k = "quot"
    /\ \E r \in SliceHeads :
          \E i, j \in SliceAt(r) : IsInf(X.data[i]) /\ IsFin(X.data[j])

\* all values of the slice are equal (IEEE ==, so none is NaN)
ConstantSlice(A, S) == \A i, j \in S : ~IsNaN(A.data[i]) /\ A.data[i] = A.data[j]

IsZero(a) == a.k \in {"fin", "quot"} /\ a.n = 0

ValidAxis == -Len(X.shape) <= arg /\ arg < Len(X.shape)

\* C4 as claimed: when every slice along dim is constant, zScore returns and
\* every output entry is 0.
C4_ConstantToZero ==
    (ZDone /\ ValidAxis /\ \A r \in SliceHeads : ConstantSlice(X, SliceAt(r))) =>
        /\ result.status = "returned"
        /\ \A j \in DOMAIN X.data : IsZero(Out.data[j])

\* C4 as amended: when every slice along dim is constant and finite, zScore
\* returns and every output entry is 0.
C4_FiniteConstantToZero ==
    (ZDone /\ ValidAxis
       /\ \A r \in SliceHeads : ConstantSlice(X, SliceAt(r)) /\ AllFinite(X, SliceAt(r))) =>
        /\ result.status = "returned"
        /\ \A j \in DOMAIN X.data : IsZero(Out.data[j])

\* a 2-D input with constant slices of two or more finite values, the slices
\* differing, was normalised
C4_Witness ==
    /\ ZReturned /\ Len(X.shape) = 2
    /\ \A r \in SliceHeads : ConstantSlice(X, SliceAt(r)) /\ AllFinite(X, SliceAt(r))
    /\ \A r \in SliceHeads : Cardinality(SliceAt(r)) >= 2
    /\ \E i, j \in DOMAIN X.data : X.data[i] # X.data[j]

\* the slice through r taken alone, as a 1-D array in the order of the axis
SliceAlone(r) ==
    Array("ndarray", <<X.shape[Ax + 1]>>,
          [t \in Indices(<<X.shape[Ax + 1]>>) |-> X.data[[r EXCEPT ![Ax + 1] = t[1]]]])

\* C10: every slice of the output along dim is what zScore returns for that
\* slice taken alone, so it depends on no value outside the slice: two inputs
\* that agree on the slice get the same output slice.
C10_SliceIndependent ==
    ZReturned =>
        \A r \in SliceHeads :
            LET alone == zScore(SliceAlone(r), 0).value
            IN  \A j \in SliceAt(r) : Out.data[j] = alone.data[<<j[Ax + 1]>>]

\* a 2-D input whose slices have different means and different deviations
\* was normalised
C10_Witness ==
    /\ ZReturned /\ Len(X.shape) = 2
    /\ \E r, q \in SliceHeads :
          /\ AllFinite(X, SliceAt(r)) /\ AllFinite(X, SliceAt(q))
          /\ SumOver(X.data, SliceAt(r)) # SumOver(X.data, SliceAt(q))
          /\ \E i \in SliceAt(r), j \in SliceAt(q) :
                /\ Out.data[i].k = "quot" /\ Out.data[j].k = "quot"
                /\ Out.data[i].rn * Out.data[j].rd # Out.data[j].rn * Out.data[i].rd
                /\ Out.data[i].rn # 0 /\ Out.data[j].rn # 0

---------------------------------------------------------------------------
(* moving_average *)

MADone == pc = "done" /\ fn = "moving_average"
MAReturned == MADone /\ result.status = "returned"
Len1(A) == A.shape[1]

\* C5 as claimed (stated for a positive window and a non-empty X, where the
\* claim is at its strongest): moving_average(X, w) returns a 1-D array of
\* length len(X) - w + 1.
C5_Length ==
    (MADone /\ arg >= 1 /\ Len1(X) >= 1) =>
        /\ result.status = "returned"
        /\ Out.shape = <<Len1(X) - arg + 1>>

\* C5 as amended: for 1 <= w <= len(X) moving_average returns a 1-D array of
\* length len(X) - w + 1; for w > len(X) >= 1 it returns one of length
\* w - len(X) + 1; for w <= 0 or an empty X it raises.
C5_LengthInRange ==
    MADone =>
        IF 1 <= arg /\ arg <= Len1(X)
        THEN /\ result.status = "returned"
             /\ Out.shape = <<Len1(X) - arg + 1>>
             /\ DOMAIN Out.data = {<<i>> : i \in 0 .. Len1(X) - arg}
        ELSE IF arg > Len1(X) /\ Len1(X) >= 1
        THEN /\ result.status = "returned"
             /\ Out.shape = <<arg - Len1(X) + 1>>
        ELSE result.status = "raised"

\* a window shorter than the series, and a window longer than it, were applied
C5_Witness ==
    /\ MAReturned
    /\ 1 < arg /\ arg < Len1(X)
    /\ Out.shape = <<Len1(X) - arg + 1>>

\* X[i] + ... + X[i + w - 1]
RECURSIVE WindowSum(_, _, _)
WindowSum(A, i, w) ==
    IF w = 0 THEN Fin(0, 1) ELSE Add(WindowSum(A, i, w - 1), A.data[<<i + w - 1>>])

\* C6: for X without missing values and 1 <= w <= len(X), output element i
\* is the arithmetic mean of X[i], ..., X[i + w - 1], for 0 <= i <= len(X) - w.
C6_WindowMean ==
    (MADone /\ NoMissing(X) /\ 1 <= arg /\ arg <= Len1(X)) =>
        /\ result.status = "returned"
        /\ \A i \in 0 .. Len1(X) - arg :
              Out.data[<<i>>] = DivInt(WindowSum(X, i, arg), arg)

\* a window of two or more finite values, not all equal, was averaged, and the
\* output has two or more elements
C6_Witness ==
    /\ MAReturned /\ AllFinite(X, DOMAIN X.data)
    /\ 2 <= arg /\ arg < Len1(X)
    /\ X.data[<<0>>] # X.data[<<1>>]
    /\ Out.data[<<0>>] # Out.data[<<1>>]

\* C8: for 1 <= w <= len(X), an output element whose window holds a missing
\* value is missing.
C8_MissingPoisons ==
    (MADone /\ 1 <= arg /\ arg <= Len1(X)) =>
        /\ result.status = "returned"
        /\ \A i \in 0 .. Len1(X) - arg :
              (\E k \in i .. i + arg - 1 : IsNaN(X.data[<<k>>])) => IsNaN(Out.data[<<i>>])

\* one window held a missing value and another did not
C8_Witness ==
    /\ MAReturned /\ 2 <= arg /\ arg < Len1(X)
    /\ \E i, j \in 0 .. Len1(X) - arg :
          /\ \E k \in i .. i + arg - 1 : IsNaN(X.data[<<k>>])
          /\ IsNaN(Out.data[<<i>>])
          /\ ~IsNaN(Out.data[<<j>>])

---------------------------------------------------------------------------
(* Errors *)

\* a non-positive window, or an axis out of range
BadArguments ==
    \/ fn = "moving_average" /\ arg <= 0
    \/ fn = "zScore" /\ (arg < -Len(X.shape) \/ arg >= Len(X.shape))

\* C9: a call with a non-positive window or an out-of-range axis ends in the
\* array library's error, returns no value, and leaves its inputs unchanged.
C9_ErrorsPropagate ==
    [][(pc = "call" /\ BadArguments) =>
          /\ pc' = "done"
          /\ result'.status = "raised"
          /\ result'.exc = (IF fn = "zScore" THEN "AxisError" ELSE "ValueError")
          /\ X' = X /\ arg' = arg]_vars

\* zScore was called with an axis out of range on a 2-D input and raised
C9_Witness ==
    /\ pc = "done" /\ BadArguments
    /\ fn = "zScore" /\ Len(X.shape) = 2 /\ arg > 0
    /\ result.status = "raised"

---------------------------------------------------------------------------
(* Normalising a series that is already normalised *)

RECURSIVE IntSum(_, _)
IntSum(f, S) == IF S = {} THEN 0
                ELSE LET j == CHOOSE j \in S : TRUE IN f[j] + IntSum(f, S \ {j})

\* the 1-D integer series of length IdemLen with mean 0 and standard deviation 1
NormalisedSeries ==
    {f \in [Indices(<<IdemLen>>) -> -IdemMax .. IdemMax] :
        /\ IntSum(f, DOMAIN f) = 0
        /\ IntSum([j \in DOMAIN f |-> f[j] * f[j]], DOMAIN f) = IdemLen}

InitIdem ==
    /\ fn = "zScore"
    /\ \E f \in NormalisedSeries :
          X = Array("ndarray", <<IdemLen>>, [j \in DOMAIN f |-> Fin(f[j], 1)])
    /\ arg \in {-1, 0}
    /\ result = NoResult
    /\ pc = "call"

NextIdem == ZScoreCall

SpecIdem == InitIdem /\ [][NextIdem]_vars

\* the input has mean 0 and standard deviation 1 in every slice along dim
Normalised ==
    \A r \in SliceHeads :
        /\ AllFinite(X, SliceAt(r))
        /\ SumOver(X.data, SliceAt(r)) = Fin(0, 1)
        /\ PopVar(X.data, SliceAt(r)) = Fin(1, 1)

\* |out - x| <= 1e-7 for out = num / (sqrt(1) + 1e-7) = num / (1 + 1e-7) and a
\* finite x = num: the difference is |x| * 1e-7 / (1 + 1e-7), which is at most
\* 1e-7 exactly when |x| <= 1 + 1e-7, i.e. |x.n| * E <= x.d * (E + 1), E = EpsDen.
SameWithinEps(out, x) ==
    /\ out.k = "quot" /\ out.rn = 1 /\ out.rd = 1
    /\ out.n = x.n /\ out.d = x.d
    /\ Abs(x.n) * EpsDen <= x.d * (EpsDen + 1)

====
